---- MODULE Spec2Model ----
(***************************************************************************)
(* munkilib/munkicommon/info.py: the Popen subclass that adds inactivity   *)
(* timeouts to subprocess.Popen (timed_readline and communicate), together *)
(* with the child process and the pipes it talks through.                  *)
(*                                                                         *)
(* One second of model time passes exactly when a select() call returns    *)
(* with nothing ready: select(..., 1.0) is the only suspension point of    *)
(* the two loops.  The child runs concurrently, so its writes, its closes  *)
(* and its exit interleave with every step of the parent.                  *)
(***************************************************************************)
EXTENDS Integers, Sequences, FiniteSets, TLC

\* ------------------------------------------------------------------ bounds
MaxTimeout == 2     \* largest timeout argument tried (the smallest is -1)
MaxBytes == 3       \* bytes the child writes in all, over both streams
MaxCalls == 3       \* successive timed_readline calls on one stream
MaxSPCalls == 2     \* successive getSPApplicationData calls
MaxDevs == 2        \* st_dev values of mounted filesystems
MaxFlags == 15      \* largest status-flags word tried (bits 1, 2, 4, 8)
MaxNbCalls == 3     \* successive set_file_nonblock calls on one descriptor

\* --------------------------------------------------------------- constants
O_NONBLOCK == 4     \* os.O_NONBLOCK (Darwin's value)
O_RDONLY == 0       \* F_GETFL of a fresh pipe read end

NL == "\n"
Bytes == {"a", NL}
Streams == {"stdout", "stderr"}
StreamOrder == <<"stdout", "stderr">>
TimeoutValues == (-1)..MaxTimeout

VARIABLES
    timeout,     \* the timeout argument of the call(s)
    requested,   \* requested[s]: self.<s> is not None (a pipe was asked for)
    flags,       \* flags[s]: the status flags of the read end (F_GETFL)
    alive,       \* the child process is running
    wopen,       \* wopen[s]: the write end of the pipe is still open
    pipe,        \* pipe[s]: bytes written and not yet read
    written,     \* written[s]: every byte the child wrote, in write order
    pc,          \* where the parent is
    fds,         \* communicate: the wait set, in order
    rlist,       \* communicate: ready descriptors still to be read this turn
    inactive,    \* the inactivity counter of the running call
    returncode,  \* communicate: the last poll() result ("None" or 0)
    out,         \* communicate: out[s] is ''.join of the chunks read so far
    result,      \* communicate: what the caller receives
    waits,       \* seconds elapsed: select() calls that returned nothing
    idle,        \* seconds elapsed since the child last wrote or closed
    closedAtOnce,\* the child's first act was closing stdout, at second 0
    output,      \* timed_readline: the bytes read so far in this call
    line,        \* timed_readline: what the caller receives
    lines,       \* timed_readline: the results of the calls that returned
    calls,       \* timed_readline: calls made so far
    streak,      \* consecutive empty seconds in the running call
    broken,      \* timed_readline: some call ended by an exception
    std_in,      \* communicate: the std_in argument (None or a string)
    childStdin,  \* bytes delivered to the child's standard input (self.stdin)
    sysStdin,    \* bytes written to the parent's own sys.stdin object
    eof,         \* communicate: streams on which a read has returned ''
    reaped,      \* the parent has collected the child's exit status
    rclosed,     \* rclosed[s]: the parent has closed its read end of s
    spPc,        \* getSPApplicationData: "idle" or inside "communicate"
    spCache,     \* Memoize: the stored results, by argument tuple
    spRet,       \* getSPApplicationData: what the last call returned
    spCalls,     \* getSPApplicationData: calls made so far
    spawns,      \* times system_profiler was launched
    spErrors,    \* display_error messages shown
    spEscaped,   \* a TimeoutError left getSPApplicationData
    spRuns,      \* times Memoize ran the wrapped function
    spFirst,     \* what the first run that returned gave
    FILESYSTEMS, \* the module's cache: st_dev -> filesystem information
    mounted,     \* the filesystems mounted now: st_dev -> information
    fsPc,        \* isExcludedFilesystem: where the running call is
    fsPath,      \* isExcludedFilesystem: path
    fsRetry,     \* isExcludedFilesystem: _retry
    fsSt,        \* isExcludedFilesystem: st (0 for None, else st.st_dev)
    fsRet,       \* what the last top-level call returned
    fsDepth,     \* isExcludedFilesystem frames on the stack
    fsRefreshes, \* getFilesystems calls made by the top-level call
    fsFresh,     \* the running frame has refreshed FILESYSTEMS
    arPc,        \* perform_auth_restart: where the running call is
    arLog,       \* commands run and files read by the call, in order
    is_active,   \* supports_auth_restart: output of fdesetup isactive
    is_supported, \* supports_auth_restart: output of supportsauthrestart
    excOutput,   \* supports_auth_restart: exc.output of the failed command
    arErr,       \* perform_auth_restart: (os version >= 10.12, err)
    arSupports,  \* what supports_auth_restart returned to the call
    recovery_key, \* perform_auth_restart: recovery_key
    arRet,       \* what the last perform_auth_restart call did
    nbFlags,     \* set_file_nonblock: the status flags of f's descriptor
    nbStart,     \* the flags the descriptor had at first
    nbPrev,      \* the flags before the last set_file_nonblock call
    nbArgs       \* the non_blocking arguments of the calls made, in order

envVars == <<requested, flags, alive, wopen, pipe, written>>
commVars == <<fds, rlist, returncode, out, result>>
ghostVars == <<waits, idle, closedAtOnce>>
rlVars == <<output, line, lines, calls, streak, broken>>
inVars == <<std_in, childStdin, sysStdin>>
endVars == <<eof, reaped, rclosed>>
spVars == <<spPc, spCache, spRet, spCalls, spawns, spErrors, spEscaped,
            spRuns, spFirst>>
fsVars == <<FILESYSTEMS, mounted, fsPc, fsPath, fsRetry, fsSt, fsRet, fsDepth,
            fsRefreshes, fsFresh>>
arVars == <<arPc, arLog, is_active, is_supported, excOutput, arErr, arSupports,
            recovery_key, arRet>>
nbVars == <<nbFlags, nbStart, nbPrev, nbArgs>>
libVars == <<fsVars, arVars, nbVars>>
vars == <<timeout, requested, flags, alive, wopen, pipe, written, pc, fds,
          rlist, inactive, returncode, out, result, waits, idle,
          closedAtOnce, output, line, lines, calls, streak, broken,
          std_in, childStdin, sysStdin, eof, reaped, rclosed, spPc,
          spCache, spRet, spCalls, spawns, spErrors, spEscaped, spRuns,
          spFirst, libVars>>

\* ----------------------------------------------------------------- values
None == [none |-> TRUE, str |-> <<>>]
Str(s) == [none |-> FALSE, str |-> s]
NoResult == [delivered |-> FALSE, stdout |-> None, stderr |-> None]
NoLine == [delivered |-> FALSE, str |-> <<>>]
StdInValues == {None, Str(<<"i">>)}

\* ------------------------------------------------------ set_file_nonblock
NonBlocking(fl) == (fl \div O_NONBLOCK) % 2 = 1

\* flags |= os.O_NONBLOCK in the place of flags ^= os.O_NONBLOCK
OrNonblock(fl) == IF NonBlocking(fl) THEN fl ELSE fl + O_NONBLOCK

\* flags ^= os.O_NONBLOCK
XorNonblock(fl) == IF NonBlocking(fl) THEN fl - O_NONBLOCK ELSE fl + O_NONBLOCK

SetFileNonblock(fl, non_blocking) ==
    IF NonBlocking(fl) # non_blocking THEN XorNonblock(fl) ELSE fl

\* ------------------------------------------------------------- the child
BytesWritten == Len(written["stdout"]) + Len(written["stderr"])

\* What select() reports for a descriptor: data to read, or end-of-stream.
Readable(s) == pipe[s] # <<>> \/ ~wopen[s]

NoChildEventYet ==
    /\ alive
    /\ \A s \in Streams : written[s] = <<>> /\ (requested[s] => wopen[s])

ChildWrite ==
    /\ alive
    /\ BytesWritten < MaxBytes
    /\ \E s \in Streams, b \in Bytes :
        /\ requested[s] /\ wopen[s]
        /\ pipe' = [pipe EXCEPT ![s] = Append(@, b)]
        /\ written' = [written EXCEPT ![s] = Append(@, b)]
    /\ idle' = 0
    /\ UNCHANGED <<timeout, requested, flags, alive, wopen, pc, inactive,
                   waits, closedAtOnce>>
    /\ UNCHANGED <<commVars, rlVars, inVars, endVars, spVars, libVars>>

\* close() in the child, or the last holder of the write end going away.
ChildClose ==
    /\ \E s \in Streams :
        /\ requested[s] /\ wopen[s]
        /\ wopen' = [wopen EXCEPT ![s] = FALSE]
        /\ closedAtOnce' = (closedAtOnce \/
                              (s = "stdout" /\ NoChildEventYet /\ waits = 0))
    /\ idle' = 0
    /\ UNCHANGED <<timeout, requested, flags, alive, pipe, written, pc,
                   inactive, waits>>
    /\ UNCHANGED <<commVars, rlVars, inVars, endVars, spVars, libVars>>

\* The child exits.  Its own descriptors close with it; a write end that a
\* descendant inherited stays open until ChildClose.
ChildExit ==
    /\ alive
    /\ alive' = FALSE
    /\ \E keep \in SUBSET {s \in Streams : requested[s] /\ wopen[s]} :
        wopen' = [s \in Streams |-> wopen[s] /\ s \in keep]
    /\ idle' = IF wopen' = wopen THEN idle ELSE 0
    /\ UNCHANGED <<timeout, requested, flags, pipe, written, pc, inactive,
                   waits, closedAtOnce>>
    /\ UNCHANGED <<commVars, rlVars, inVars, endVars, spVars, libVars>>

Child == ChildWrite \/ ChildClose \/ ChildExit

InitEnv ==
    /\ timeout \in TimeoutValues
    /\ flags = [s \in Streams |-> O_RDONLY]
    /\ alive = TRUE
    /\ wopen = requested
    /\ pipe = [s \in Streams |-> <<>>]
    /\ written = [s \in Streams |-> <<>>]
    /\ inactive = 0
    /\ waits = 0
    /\ idle = 0
    /\ closedAtOnce = FALSE

InitCommVars ==
    /\ fds = <<>>
    /\ rlist = <<>>
    /\ returncode = "None"
    /\ out = [s \in Streams |-> <<>>]
    /\ result = NoResult

InitEndVars ==
    /\ childStdin = <<>>
    /\ sysStdin = <<>>
    /\ eof = {}
    /\ reaped = FALSE
    /\ rclosed = [s \in Streams |-> FALSE]

\* No call of getSPApplicationData yet: the Memoize dict is empty.
\* FILESYSTEMS = {} at import; the root filesystem (st_dev 1) is mounted and
\* no call of isExcludedFilesystem has been made.
InitFsVars ==
    /\ FILESYSTEMS = <<>>
    /\ mounted = [d \in {1} |-> [f_flags_set |-> {"local"},
                                 f_fstypename |-> "hfs"]]
    /\ fsPc = "idle"
    /\ fsPath = <<>>
    /\ fsRetry = FALSE
    /\ fsSt = 0
    /\ fsRet = "unset"
    /\ fsDepth = 0
    /\ fsRefreshes = 0
    /\ fsFresh = FALSE

\* No perform_auth_restart call has been made.
InitArVars ==
    /\ arPc = "idle"
    /\ arLog = <<>>
    /\ is_active = <<>>
    /\ is_supported = <<>>
    /\ excOutput = <<>>
    /\ arErr = <<FALSE, <<>> >>
    /\ arSupports = "unset"
    /\ recovery_key = <<>>
    /\ arRet = "unset"

\* A descriptor in blocking mode on which set_file_nonblock was not called.
InitNbVars ==
    /\ nbFlags = O_RDONLY
    /\ nbStart = O_RDONLY
    /\ nbPrev = O_RDONLY
    /\ nbArgs = <<>>

InitLibVars == InitFsVars /\ InitArVars /\ InitNbVars

InitSpVars ==
    /\ spPc = "idle"
    /\ spCache = <<>>
    /\ spRet = [set |-> FALSE, empty |-> TRUE, items |-> <<>>]
    /\ spCalls = 0
    /\ spawns = 0
    /\ spErrors = 0
    /\ spEscaped = FALSE
    /\ spRuns = 0
    /\ spFirst = [set |-> FALSE, empty |-> TRUE, items |-> <<>>]

InitRlVars ==
    /\ output = <<>>
    /\ line = NoLine
    /\ lines = <<>>
    /\ calls = 0
    /\ streak = 0
    /\ broken = FALSE

\* ------------------------------------------------------ Popen.communicate
\* Variants of the three tests below with one plausible slip each.
TimeoutDisabledStrict(t) == t < 0

TimedOutLate(i, t) == i > t

InactiveKept(i) == i

TimeoutDisabled(t) == t <= 0

TimedOut(i, t) == i >= t

InactiveOnReady(i) == 0

IsRequestedAlways(s) == TRUE

IsRequested(s) == requested[s]

\* select.select(fds, [], [], 1.0): the ready members of fds, in fds' order.
Select(wait) ==
    LET Ready(s) == Readable(s) IN SelectSeq(wait, Ready)

\* (stdout, stderr) as built at the end of communicate.
Joined(s) == IF requested[s] THEN Str(out[s]) ELSE None

\* What sys.stdin is in the calling process: None, an object that accepts
\* write(), or the interpreter's own read-only file, whose write() raises
\* IOError.
SysStdinKinds == {"None", "writable", "readonly"}

\* if std_in is not None and sys.stdin is not None: sys.stdin.write(std_in)
WriteStdIn ==
    IF std_in = None
      THEN /\ pc' = "select"
           /\ UNCHANGED <<childStdin, sysStdin>>
      ELSE \E sys_stdin \in SysStdinKinds :
             /\ pc' = IF sys_stdin = "readonly" THEN "ioerror" ELSE "select"
             /\ sysStdin' = IF sys_stdin = "writable"
                              THEN sysStdin \o std_in.str ELSE sysStdin
             /\ UNCHANGED childStdin

\* if timeout <= 0: hand over to subprocess.Popen.communicate (which writes
\* input to self.stdin); otherwise set the requested descriptors
\* non-blocking, build the wait set and write std_in.
CommStart ==
    /\ pc = "start"
    /\ IF TimeoutDisabled(timeout)
         THEN /\ pc' = "super"
              /\ childStdin' = childStdin \o std_in.str
              /\ UNCHANGED <<flags, fds, sysStdin>>
         ELSE /\ flags' = [s \in Streams |->
                            IF requested[s]
                              THEN SetFileNonblock(flags[s], TRUE)
                              ELSE flags[s]]
              /\ fds' = SelectSeq(StreamOrder, IsRequested)
              /\ WriteStdIn
    /\ returncode' = "None"
    /\ inactive' = 0
    /\ UNCHANGED <<timeout, requested, alive, wopen, pipe, written, rlist,
                   out, result, std_in>>
    /\ UNCHANGED <<ghostVars, rlVars, endVars, spVars, libVars>>

\* subprocess.Popen.communicate: read each requested stream to end-of-stream
\* in blocking mode, then wait() for the child.
SuperRead ==
    /\ pc = "super"
    /\ \E s \in Streams :
        /\ requested[s] /\ pipe[s] # <<>>
        /\ out' = [out EXCEPT ![s] = @ \o pipe[s]]
        /\ pipe' = [pipe EXCEPT ![s] = <<>>]
    /\ UNCHANGED <<timeout, requested, flags, alive, wopen, written, pc, fds,
                   rlist, inactive, returncode, result>>
    /\ UNCHANGED <<ghostVars, rlVars, inVars, endVars, spVars, libVars>>

SuperReturn ==
    /\ pc = "super"
    /\ \A s \in Streams : requested[s] => (pipe[s] = <<>> /\ ~wopen[s])
    /\ ~alive
    /\ returncode' = "0"
    /\ reaped' = TRUE
    /\ rclosed' = requested
    /\ result' = [delivered |-> TRUE, stdout |-> Joined("stdout"),
                  stderr |-> Joined("stderr")]
    /\ pc' = "returned"
    /\ UNCHANGED <<timeout, fds, rlist, inactive, out, eof>>
    /\ UNCHANGED <<envVars, ghostVars, rlVars, inVars, spVars, libVars>>

\* A timeout that hands the collected output to the caller.
RaiseWithPartialOutput ==
    /\ pc' = "raised"
    /\ result' = [delivered |-> TRUE, stdout |-> Joined("stdout"),
                  stderr |-> Joined("stderr")]
    /\ UNCHANGED <<reaped, rclosed>>

\* raise TimeoutError: the exception carries nothing, and nothing is done to
\* the child or to the descriptors first.
RaiseTimeoutError ==
    /\ pc' = "raised"
    /\ UNCHANGED <<result, reaped, rclosed>>

\* One select() of the loop; with nothing ready a second has passed, the
\* counter goes up and the call may end in TimeoutError.
CommSelect ==
    /\ pc = "select"
    /\ LET ready == Select(fds) IN
         IF ready = <<>>
           THEN /\ inactive' = inactive + 1
                /\ waits' = waits + 1
                /\ idle' = idle + 1
                /\ streak' = streak + 1
                /\ IF TimedOut(inactive', timeout)
                     THEN RaiseTimeoutError
                     ELSE /\ pc' = "poll"
                          /\ UNCHANGED <<result, reaped, rclosed>>
                /\ UNCHANGED rlist
           ELSE /\ inactive' = InactiveOnReady(inactive)
                /\ streak' = 0
                /\ rlist' = ready
                /\ pc' = "read"
                /\ UNCHANGED <<waits, idle, result, reaped, rclosed>>
    /\ UNCHANGED <<timeout, fds, returncode, out, closedAtOnce, eof>>
    /\ UNCHANGED <<output, line, lines, calls, broken>>
    /\ UNCHANGED <<envVars, inVars, spVars, libVars>>

\* fd.read() on the next ready descriptor: everything in the pipe right now
\* ('' at end-of-stream), appended to that stream's list.
CommRead ==
    /\ pc = "read"
    /\ LET s == Head(rlist) IN
        /\ out' = [out EXCEPT ![s] = @ \o pipe[s]]
        /\ pipe' = [pipe EXCEPT ![s] = <<>>]
        /\ eof' = IF pipe[s] = <<>> THEN eof \cup {s} ELSE eof
    /\ rlist' = Tail(rlist)
    /\ pc' = IF Tail(rlist) = <<>> THEN "poll" ELSE "read"
    /\ UNCHANGED <<timeout, requested, flags, alive, wopen, written, fds,
                   inactive, returncode, result, reaped, rclosed>>
    /\ UNCHANGED <<ghostVars, rlVars, inVars, spVars, libVars>>

PollAlwaysExited == "0"

\* self.poll(): the exit status if the child has exited, else None.
Poll == IF alive THEN "None" ELSE "0"

\* returncode = self.poll(); the loop ends once it is not None.
CommPoll ==
    /\ pc = "poll"
    /\ returncode' = Poll
    /\ reaped' = (reaped \/ (~alive /\ returncode' # "None"))
    /\ IF returncode' = "None"
         THEN /\ pc' = "select"
              /\ UNCHANGED result
         ELSE /\ pc' = "returned"
              /\ result' = [delivered |-> TRUE, stdout |-> Joined("stdout"),
                            stderr |-> Joined("stderr")]
    /\ UNCHANGED <<timeout, fds, rlist, inactive, out, eof, rclosed>>
    /\ UNCHANGED <<envVars, ghostVars, rlVars, inVars, spVars, libVars>>

Communicate ==
    CommStart \/ SuperRead \/ SuperReturn \/ CommSelect \/ CommRead \/ CommPoll

InitComm ==
    /\ requested \in [Streams -> BOOLEAN]
    /\ InitEnv
    /\ pc = "start"
    /\ std_in \in StdInValues
    /\ InitCommVars
    /\ InitRlVars
    /\ InitEndVars
    /\ InitSpVars
    /\ InitLibVars

NextComm == Communicate \/ Child

SpecComm == InitComm /\ [][NextComm]_vars

\* The parent is a running thread: whichever step of communicate is possible
\* is eventually taken.  Nothing obliges the child to do anything.
SpecCommFair == SpecComm /\ WF_vars(Communicate)

\* ---------------------------------------------------- getSPApplicationData
\* communicate(timeout=60): the sixty one-second waits are scaled to the
\* timeouts 1..MaxTimeout, which keeps the loop's counters small.
SPTimeouts == 1..MaxTimeout

\* getSPApplicationData takes no arguments: Memoize's key is the empty tuple.
NoArgs == <<>>

EmptyDict == [set |-> TRUE, empty |-> TRUE, items |-> <<>>]

\* app_data as built from the items of a plist that could be read.
AppData(o) == [set |-> TRUE, empty |-> FALSE, items |-> o]

\* A cache that is never found to hold anything.
MemoHasNever(cache, key) == FALSE

\* Memoize.__call__ finds the key / Memoize.__missing__ stores the result.
MemoHas(cache, key) == key \in DOMAIN cache

MemoStore(cache, key, v) == (key :> v) @@ cache

\* The function returns v: Memoize stores it under the key and hands it on.
SpReturn(v) ==
    /\ spCache' = MemoStore(spCache, NoArgs, v)
    /\ spRet' = v
    /\ spFirst' = IF spFirst.set THEN spFirst ELSE v
    /\ spPc' = "idle"

\* Popen(cmd, shell=False, bufsize=-1, stdin=PIPE, stdout=PIPE, stderr=PIPE):
\* a new child with fresh pipes, and communicate about to be called on it.
SpSpawn ==
    /\ spawns' = spawns + 1
    /\ alive' = TRUE
    /\ wopen' = requested
    /\ flags' = [s \in Streams |-> O_RDONLY]
    /\ pipe' = [s \in Streams |-> <<>>]
    /\ written' = [s \in Streams |-> <<>>]
    /\ pc' = "start"
    /\ fds' = <<>>
    /\ rlist' = <<>>
    /\ inactive' = 0
    /\ returncode' = "None"
    /\ out' = [s \in Streams |-> <<>>]
    /\ result' = NoResult
    /\ waits' = 0
    /\ idle' = 0
    /\ closedAtOnce' = FALSE
    /\ streak' = 0
    /\ childStdin' = <<>>
    /\ eof' = {}
    /\ reaped' = FALSE
    /\ rclosed' = [s \in Streams |-> FALSE]
    /\ UNCHANGED <<timeout, requested, std_in, sysStdin, output, line, lines,
                   calls, broken>>

\* Whether Popen(...) starts the command: subprocess raises OSError when
\* the fork or the exec fails, and the function has no handler for it.
PopenOutcomes == {"started", "OSError"}

\* A caller calls getSPApplicationData(): Memoize returns the stored result,
\* or runs the function, which starts system_profiler.  When Popen raises,
\* the exception leaves Memoize.__missing__ before anything is stored.
SpCall ==
    /\ spPc = "idle"
    /\ spCalls < MaxSPCalls
    /\ UNCHANGED libVars
    /\ spCalls' = spCalls + 1
    /\ IF MemoHas(spCache, NoArgs)
         THEN /\ spRet' = spCache[NoArgs]
              /\ UNCHANGED <<spPc, spCache, spawns, spErrors, spEscaped,
                             spRuns, spFirst>>
              /\ UNCHANGED <<timeout, pc, inactive>>
              /\ UNCHANGED <<envVars, commVars, ghostVars, rlVars, inVars,
                             endVars>>
         ELSE /\ spRuns' = spRuns + 1
              /\ \E started \in PopenOutcomes :
                   IF started = "started"
                     THEN /\ SpSpawn
                          /\ spPc' = "communicate"
                     ELSE /\ UNCHANGED <<spPc, spawns>>
                          /\ UNCHANGED <<timeout, pc, inactive>>
                          /\ UNCHANGED <<envVars, commVars, ghostVars, rlVars,
                                         inVars, endVars>>
              /\ UNCHANGED <<spCache, spRet, spErrors, spEscaped, spFirst>>

\* A version of the handler that lets the exception through.
OnTimeoutErrorPropagates ==
    /\ spEscaped' = TRUE
    /\ spPc' = "idle"
    /\ UNCHANGED <<spCache, spRet, spErrors, spFirst>>

\* except TimeoutError: display_error(...); return {}
OnTimeoutError ==
    /\ spErrors' = spErrors + 1
    /\ SpReturn(EmptyDict)
    /\ UNCHANGED spEscaped

\* communicate raised TimeoutError inside getSPApplicationData.
SpExcept ==
    /\ spPc = "communicate"
    /\ pc = "raised"
    /\ OnTimeoutError
    /\ UNCHANGED <<spCalls, spawns, spRuns, libVars>>
    /\ UNCHANGED <<timeout, pc, inactive>>
    /\ UNCHANGED <<envVars, commVars, ghostVars, rlVars, inVars, endVars>>

\* communicate returned: readPlistFromString(output) and the loop over the
\* items give app_data, or any exception on the way gives {}.  Whether the
\* text can be read is the plist reader's business; an empty text cannot.
SpParse ==
    /\ spPc = "communicate"
    /\ pc = "returned"
    /\ \E readable \in BOOLEAN :
        /\ readable => result.stdout.str # <<>>
        /\ SpReturn(IF readable THEN AppData(result.stdout.str)
                                ELSE EmptyDict)
    /\ UNCHANGED <<spCalls, spawns, spErrors, spEscaped, spRuns, libVars>>
    /\ UNCHANGED <<timeout, pc, inactive>>
    /\ UNCHANGED <<envVars, commVars, ghostVars, rlVars, inVars, endVars>>

GetSPApplicationData == SpCall \/ SpExcept \/ SpParse

\* The steps of communicate when a timeout is given.
TimedCommunicate == CommStart \/ CommSelect \/ CommRead \/ CommPoll

InitSP ==
    /\ requested = [s \in Streams |-> TRUE]
    /\ timeout \in SPTimeouts
    /\ flags = [s \in Streams |-> O_RDONLY]
    /\ alive = FALSE
    /\ wopen = [s \in Streams |-> FALSE]
    /\ pipe = [s \in Streams |-> <<>>]
    /\ written = [s \in Streams |-> <<>>]
    /\ inactive = 0
    /\ waits = 0
    /\ idle = 0
    /\ closedAtOnce = FALSE
    /\ pc = "nochild"
    /\ std_in = None
    /\ InitCommVars
    /\ InitRlVars
    /\ InitEndVars
    /\ InitSpVars
    /\ InitLibVars

NextSP == GetSPApplicationData \/ TimedCommunicate \/ Child

SpecSP == InitSP /\ [][NextSP]_vars

\* ---------------------------------------------------- isExcludedFilesystem
\* Everything of Popen and of the memoized functions, which the functions
\* below leave alone.
PopenVars == <<timeout, pc, inactive, envVars, commVars, ghostVars, rlVars,
               inVars, endVars, spVars>>

\* st_dev values; 1 is the root filesystem, the others are mounted and
\* unmounted while the program runs (autofs, network volumes).
Devs == 1..MaxDevs

\* What getFilesystems keeps of a statfs record.
FsInfos ==
    { [f_flags_set |-> {"local"}, f_fstypename |-> "hfs"],
      [f_flags_set |-> {"local", "read-only"}, f_fstypename |-> "hfs"],
      [f_flags_set |-> {}, f_fstypename |-> "nfs"] }

\* Some of APP_DISCOVERY_EXCLUSION_DIRS.
APP_DISCOVERY_EXCLUSION_DIRS == {"Volumes", "tmp", "private"}

\* Paths are sequences of "/" and names.
Paths ==
    { <<>>,
      <<"/", "Volumes", "/", "x">>,
      <<"/", "Applications", "/", "x">>,
      <<"Applications">>,
      <<"x", "/", "tmp">> }

\* path.split('/')
RECURSIVE Split(_)
Split(path) ==
    IF path = <<>> THEN << <<>> >>
    ELSE LET rest == Split(Tail(path)) IN
         IF Head(path) = "/" THEN << <<>> >> \o rest
         ELSE << <<Head(path)>> \o Head(rest) >> \o Tail(rest)

\* len(path_components) > 1 and path_components[1] in the exclusion dirs
InExcludedDir(path) ==
    LET path_components == Split(path) IN
    /\ Len(path_components) > 1
    /\ Len(path_components[2]) = 1
    /\ path_components[2][1] \in APP_DISCOVERY_EXCLUSION_DIRS

\* The restriction of a map to some of its keys.
Restrict(f, keys) == [d \in keys |-> f[d]]

\* getFilesystems(): {} when getfsstat fails, else the mounted filesystems
\* whose mount point could be stat'ed.
GetFilesystems == { Restrict(mounted, keys) : keys \in SUBSET DOMAIN mounted }

\* A cache that is refreshed on every call.
NeedsRefreshAlways(cache, retry) == TRUE

\* if not FILESYSTEMS or _retry:
NeedsRefresh(cache, retry) == DOMAIN cache = {} \/ retry

\* os.stat(path): OSError (st = None, written 0) or the path's st_dev.
StatResults == {0} \cup Devs

\* st is None or st.st_dev not in FILESYSTEMS
LookupFails(st, cache) == st = 0 \/ st \notin DOMAIN cache

ExcFlags(info) ==
    \/ "read-only" \in info.f_flags_set
    \/ "local" \notin info.f_flags_set

IsNfs(info) == info.f_fstypename = "nfs"

PyBool(b) == IF b THEN "True" ELSE "False"

\* A return statement of isExcludedFilesystem: every frame hands the value
\* on, so the top-level call returns it.
FsReturn(v) ==
    /\ fsRet' = v
    /\ fsPc' = "idle"
    /\ fsDepth' = 0
    /\ UNCHANGED <<fsPath, fsRetry, fsFresh>>

\* The start of a frame, up to the test of the cache.
FsEnter(path, retry) ==
    IF path = <<>> THEN FsReturn("None")
    ELSE IF InExcludedDir(path) THEN FsReturn("True")
    ELSE /\ fsPc' = "refresh"
         /\ fsPath' = path
         /\ fsRetry' = retry
         /\ fsFresh' = FALSE
         /\ UNCHANGED fsRet

\* A caller calls isExcludedFilesystem(path).
FsCall ==
    /\ UNCHANGED <<PopenVars, arVars, nbVars>>
    /\ fsPc = "idle"
    /\ \E path \in Paths :
        /\ IF path = <<>> \/ InExcludedDir(path)
             THEN UNCHANGED fsDepth
             ELSE fsDepth' = 1
        /\ FsEnter(path, FALSE)
    /\ fsRefreshes' = 0
    /\ UNCHANGED <<FILESYSTEMS, mounted, fsSt>>

\* if not FILESYSTEMS or _retry: FILESYSTEMS = getFilesystems()
FsRefresh ==
    /\ UNCHANGED <<PopenVars, arVars, nbVars>>
    /\ fsPc = "refresh"
    /\ IF NeedsRefresh(FILESYSTEMS, fsRetry)
         THEN /\ FILESYSTEMS' \in GetFilesystems
              /\ fsRefreshes' = fsRefreshes + 1
              /\ fsFresh' = TRUE
         ELSE UNCHANGED <<FILESYSTEMS, fsRefreshes, fsFresh>>
    /\ fsPc' = "stat"
    /\ UNCHANGED <<mounted, fsPath, fsRetry, fsSt, fsRet, fsDepth>>

\* try: st = os.stat(path) except OSError: st = None
FsStat ==
    /\ UNCHANGED <<PopenVars, arVars, nbVars>>
    /\ fsPc = "stat"
    /\ fsSt' \in StatResults
    /\ fsPc' = "lookup"
    /\ UNCHANGED <<FILESYSTEMS, mounted, fsPath, fsRetry, fsRet, fsDepth,
                   fsRefreshes, fsFresh>>

\* The lookup of st.st_dev and what follows it: the retry, None, or the
\* answer from the cached information.
FsLookup ==
    /\ UNCHANGED <<PopenVars, arVars, nbVars>>
    /\ fsPc = "lookup"
    /\ IF LookupFails(fsSt, FILESYSTEMS)
         THEN IF ~fsRetry
                THEN /\ fsDepth' = fsDepth + 1
                     /\ FsEnter(fsPath, TRUE)
                ELSE FsReturn("None")
         ELSE FsReturn(PyBool(IsNfs(FILESYSTEMS[fsSt])
                              \/ ExcFlags(FILESYSTEMS[fsSt])))
    /\ UNCHANGED <<FILESYSTEMS, mounted, fsSt, fsRefreshes>>

IsExcludedFilesystem == FsCall \/ FsRefresh \/ FsStat \/ FsLookup

\* The system mounts a filesystem (the stat of a path under autofs does).
FsMount ==
    /\ UNCHANGED <<PopenVars, arVars, nbVars>>
    /\ \E d \in Devs \ DOMAIN mounted, info \in FsInfos :
        mounted' = [e \in DOMAIN mounted \cup {d} |->
                      IF e = d THEN info ELSE mounted[e]]
    /\ UNCHANGED <<FILESYSTEMS, fsPc, fsPath, fsRetry, fsSt, fsRet, fsDepth,
                   fsRefreshes, fsFresh>>

\* The system unmounts a filesystem other than the root.
FsUnmount ==
    /\ UNCHANGED <<PopenVars, arVars, nbVars>>
    /\ \E d \in DOMAIN mounted \ {1} :
        mounted' = Restrict(mounted, DOMAIN mounted \ {d})
    /\ UNCHANGED <<FILESYSTEMS, fsPc, fsPath, fsRetry, fsSt, fsRet, fsDepth,
                   fsRefreshes, fsFresh>>

\* No Popen object exists and no memoized function has been called.
InitNoPopen ==
    /\ requested = [s \in Streams |-> FALSE]
    /\ timeout = 0
    /\ flags = [s \in Streams |-> O_RDONLY]
    /\ alive = FALSE
    /\ wopen = [s \in Streams |-> FALSE]
    /\ pipe = [s \in Streams |-> <<>>]
    /\ written = [s \in Streams |-> <<>>]
    /\ inactive = 0
    /\ waits = 0
    /\ idle = 0
    /\ closedAtOnce = FALSE
    /\ pc = "nochild"
    /\ std_in = None
    /\ InitCommVars
    /\ InitRlVars
    /\ InitEndVars
    /\ InitSpVars

InitFS == InitNoPopen /\ InitFsVars /\ InitArVars /\ InitNbVars

NextFS == IsExcludedFilesystem \/ FsMount \/ FsUnmount

SpecFS == InitFS /\ [][NextFS]_vars

\* The call is not held up for ever: a running call takes its next step.
SpecFSFair == SpecFS /\ WF_vars(IsExcludedFilesystem)

\* ---------------------------------------------------- perform_auth_restart
\* What a command prints, or a string read from a file: a sequence of words.
Words ==
    { <<>>, <<"true">>, <<"true", "\n">>, <<"false", "\n">>, <<"error">> }

\* 'word' in text
Contains(text, word) == \E i \in 1..Len(text) : text[i] = word

\* subprocess.check_output: the output of a command that exits with 0, a
\* CalledProcessError carrying the output, or an OSError when the command
\* cannot be started.
CheckOutputs == {"ok", "CalledProcessError", "OSError"}

\* The values of keyplist['RecoveryKey'] tried; " " stands for white space.
RecoveryKeys ==
    { <<>>, <<" ">>, <<"k">>, <<" ", "k", " ">>, <<"k", " ", "k">> }

\* str.strip()
RECURSIVE LStrip(_)
LStrip(s) == IF s # <<>> /\ Head(s) = " " THEN LStrip(Tail(s)) ELSE s

RECURSIVE RStrip(_)
RStrip(s) ==
    IF s # <<>> /\ s[Len(s)] = " " THEN RStrip(SubSeq(s, 1, Len(s) - 1))
    ELSE s

Strip(s) == RStrip(LStrip(s))

\* How get_auth_restart_key's reading of the key file goes.
KeyFileOutcomes ==
    {"unset", "NSPropertyListSerializationException", "KeyError", "read"}

\* perform_auth_restart returns v (or an exception leaves it).
ArReturn(v) ==
    /\ arRet' = v
    /\ arPc' = "idle"

\* A restart that goes ahead whatever the key.
KeyMissingNever(key) == FALSE

\* if not recovery_key:
KeyMissing(key) == key = <<>>

\* 'true' in is_active and 'true' in is_supported
Supported(active, supported) ==
    Contains(active, "true") /\ Contains(supported, "true")

\* A caller calls perform_auth_restart().
ArCall ==
    /\ arPc = "idle"
    /\ arPc' = "isactive"
    /\ arLog' = <<>>
    /\ is_active' = <<>>
    /\ is_supported' = <<>>
    /\ excOutput' = <<>>
    /\ arErr' = <<FALSE, <<>> >>
    /\ arSupports' = "unset"
    /\ recovery_key' = <<>>
    /\ arRet' = "unset"
    /\ UNCHANGED <<PopenVars, fsVars, nbVars>>

\* supports_auth_restart, first command: fdesetup isactive.  A
\* CalledProcessError makes it return False, whatever the output.
ArIsActive ==
    /\ arPc = "isactive"
    /\ arLog' = Append(arLog, "isactive")
    /\ \E how \in CheckOutputs, text \in Words :
        CASE how = "ok" ->
               /\ is_active' = text
               /\ arPc' = "supportsauthrestart"
               /\ UNCHANGED <<excOutput, arSupports, arRet>>
          [] how = "CalledProcessError" ->
               /\ excOutput' = text
               /\ arSupports' = "False"
               /\ ArReturn("False")
               /\ UNCHANGED is_active
          [] how = "OSError" ->
               /\ ArReturn("raised")
               /\ UNCHANGED <<is_active, excOutput, arSupports>>
    /\ UNCHANGED <<is_supported, arErr, recovery_key>>
    /\ UNCHANGED <<PopenVars, fsVars, nbVars>>

\* supports_auth_restart, second command: fdesetup supportsauthrestart, and
\* the test of perform_auth_restart on what supports_auth_restart returns.
ArSupportsAuthRestart ==
    /\ arPc = "supportsauthrestart"
    /\ arLog' = Append(arLog, "supportsauthrestart")
    /\ \E how \in CheckOutputs, text \in Words :
        CASE how = "ok" ->
               /\ is_supported' = text
               /\ IF Supported(is_active, text)
                    THEN /\ arSupports' = "True"
                         /\ arPc' = "key"
                         /\ UNCHANGED arRet
                    ELSE /\ arSupports' = "False"
                         /\ ArReturn("False")
               /\ UNCHANGED excOutput
          [] how = "CalledProcessError" ->
               /\ excOutput' = text
               /\ arSupports' = "False"
               /\ ArReturn("False")
               /\ UNCHANGED is_supported
          [] how = "OSError" ->
               /\ ArReturn("raised")
               /\ UNCHANGED <<is_supported, excOutput, arSupports>>
    /\ UNCHANGED <<is_active, arErr, recovery_key>>
    /\ UNCHANGED <<PopenVars, fsVars, nbVars>>

\* recovery_key = get_auth_restart_key() and the test of the key.
ArGetKey ==
    /\ arPc = "key"
    /\ \E how \in KeyFileOutcomes, stored \in RecoveryKeys :
        /\ arLog' = CASE how = "unset" -> Append(arLog, "pref")
                      [] how = "read" -> arLog \o <<"pref", "readPlist">>
                      [] OTHER -> arLog \o <<"pref", "readPlist", how>>
        /\ recovery_key' = IF how = "read" THEN Strip(stored) ELSE <<>>
        /\ IF KeyMissing(recovery_key')
             THEN ArReturn("False")
             ELSE arPc' = "authrestart" /\ UNCHANGED arRet
    /\ UNCHANGED <<is_active, is_supported, excOutput, arErr, arSupports>>
    /\ UNCHANGED <<PopenVars, fsVars, nbVars>>

\* fdesetup authrestart -inputplist is started and fed the key; the result
\* depends on the OS version and on what the command wrote to stderr.
ArAuthRestart ==
    /\ arPc = "authrestart"
    /\ arLog' = Append(arLog, "authrestart")
    /\ \E err \in {<<>>, <<"System is being restarted">>, <<"error">>},
          sierra \in BOOLEAN :
        /\ arErr' = <<sierra, err>>
        /\ ArReturn(IF (sierra /\ Contains(err, "System is being restarted"))
                       \/ err = <<>>
                    THEN "True" ELSE "False")
    /\ UNCHANGED <<is_active, is_supported, excOutput, arSupports,
                   recovery_key>>
    /\ UNCHANGED <<PopenVars, fsVars, nbVars>>

PerformAuthRestart ==
    ArCall \/ ArIsActive \/ ArSupportsAuthRestart \/ ArGetKey \/ ArAuthRestart

InitAR == InitNoPopen /\ InitFsVars /\ InitArVars /\ InitNbVars

NextAR == PerformAuthRestart

SpecAR == InitAR /\ [][NextAR]_vars

\* ------------------------------------- set_file_nonblock on one descriptor
\* The status flags F_GETFL may report for the descriptor at first.
FlagValues == 0..MaxFlags

\* A caller calls set_file_nonblock(f, non_blocking): F_GETFL, the change of
\* the flags, F_SETFL.
SetFileNonblockCall ==
    /\ Len(nbArgs) < MaxNbCalls
    /\ \E non_blocking \in BOOLEAN :
        /\ nbFlags' = SetFileNonblock(nbFlags, non_blocking)
        /\ nbArgs' = Append(nbArgs, non_blocking)
    /\ nbPrev' = nbFlags
    /\ UNCHANGED nbStart
    /\ UNCHANGED <<PopenVars, fsVars, arVars>>

InitNB ==
    /\ InitNoPopen
    /\ InitFsVars
    /\ InitArVars
    /\ nbStart \in FlagValues
    /\ nbFlags = nbStart
    /\ nbPrev = nbStart
    /\ nbArgs = <<>>

NextNB == SetFileNonblockCall

SpecNB == InitNB /\ [][NextNB]_vars

\* ------------------------------------------------- communicate: properties
CommEnded == pc \in {"returned", "raised"}

Requested == {s \in Streams : requested[s]}

\* C1: after a communicate call with timeout > 0 has ended, by returning or
\* by raising TimeoutError, every descriptor it monitored is in blocking mode
\* again (O_NONBLOCK is clear).
C1_BlockingAfterCommunicate ==
    (timeout > 0 /\ CommEnded) =>
        \A s \in Requested : ~NonBlocking(flags[s])

\* C3: when communicate with timeout > 0 returns, each requested stream's
\* string is exactly what the child wrote to it, in write order, whatever
\* the interleaving of the child with the parent's wait, read and poll.
C3_ExactOutput ==
    (timeout > 0 /\ pc = "returned") =>
        \A s \in Requested : result[s] = Str(written[s])

\* C4: with timeout > 0, communicate raises TimeoutError only when at least
\* timeout seconds in a row have passed since the child last made a
\* monitored descriptor readable; the seconds waited in all do not count.
C4_TimeoutOnlyOnInactivity ==
    [][(timeout > 0 /\ pc # "raised" /\ pc' = "raised") =>
          idle' >= timeout]_vars

\* A call that waited timeout seconds or more in all and still returned the
\* child's output.
C4_Witness ==
    /\ timeout > 1
    /\ pc = "returned"
    /\ waits >= timeout
    /\ \E s \in Requested : written[s] # <<>> /\ result[s] = Str(written[s])

\* C5: with timeout > 0, while the child is alive and has neither written
\* nor closed anything, communicate has not returned, no more than timeout
\* seconds have passed, and TimeoutError is raised exactly when the
\* timeout-th second has passed.
C5_SilentChildTimesOut ==
    (timeout > 0 /\ NoChildEventYet) =>
        /\ waits <= timeout
        /\ pc # "returned"
        /\ (pc = "raised" <=> waits = timeout)

C5_Witness ==
    /\ timeout = MaxTimeout
    /\ NoChildEventYet
    /\ Requested = Streams
    /\ pc = "raised"
    /\ waits = timeout

\* C6: communicate with timeout <= 0 monitors nothing: it never raises
\* TimeoutError, never counts a second, leaves every descriptor's flags as
\* they were, and returns, once the child has exited, what the blocking
\* subprocess communicate returns: all the child wrote to each requested
\* stream and None for the others.
C6_NoMonitoringWithoutTimeout ==
    timeout <= 0 =>
        /\ pc # "raised"
        /\ inactive = 0 /\ waits = 0
        /\ \A s \in Streams : flags[s] = O_RDONLY
        /\ pc = "returned" =>
             /\ ~alive
             /\ result.delivered
             /\ \A s \in Streams :
                  result[s] = IF requested[s] THEN Str(written[s]) ELSE None

C6_Witness ==
    /\ timeout = 0
    /\ pc = "returned"
    /\ result.stdout = Str(written["stdout"])
    /\ Len(written["stdout"]) = MaxBytes
    /\ result.stderr = None

\* C10: a child that closes stdout at once, keeps stderr open, later writes
\* to stderr and exits makes communicate (timeout > 0) return the empty
\* string for stdout and what was written for stderr, without TimeoutError.
C10_EofDoesNotHideOtherStream ==
    (/\ timeout > 0
     /\ Requested = Streams
     /\ closedAtOnce
     /\ written["stdout"] = <<>>
     /\ written["stderr"] # <<>>
     /\ ~alive
     /\ CommEnded) =>
        /\ pc = "returned"
        /\ result.stdout = Str(<<>>)
        /\ result.stderr = Str(written["stderr"])

\* --------------------------------------------------- Popen.timed_readline
\* The stream the calls read: f is the handle's stdout.
F == "stdout"

RlTimedOutLate(i, t) == i > t

RlEndOfLineAtEofOnly(c) == c = <<>>

RlTimedOut(i, t) == i >= t

RlInactiveKept(i) == i

RlInactiveOnReady(i) == 0

Read1Twice(p) == SubSeq(p, 1, IF Len(p) < 2 THEN Len(p) ELSE 2)

\* f.read(1): the next byte, or '' at end-of-stream.
Read1(p) == IF p = <<>> THEN <<>> ELSE <<Head(p)>>

RlEndOfLine(c) == c = <<>> \/ c = <<NL>>

\* After the loop: set_file_nonblock(f, non_blocking=False), then raise
\* TimeoutError or return ''.join(output).
RlFinish(inact, outp) ==
    /\ flags' = [flags EXCEPT ![F] = SetFileNonblock(@, FALSE)]
    /\ output' = <<>>
    /\ IF RlTimedOut(inact, timeout)
         THEN /\ pc' = "rl_raised"
              /\ line' = NoLine
              /\ broken' = TRUE
              /\ UNCHANGED lines
         ELSE /\ pc' = "rl_returned"
              /\ line' = [delivered |-> TRUE, str |-> outp]
              /\ lines' = Append(lines, outp)
              /\ UNCHANGED broken

\* The caller calls timed_readline(f, timeout): set_file_nonblock(f),
\* output = [], inactive = 0.
RlCall ==
    /\ pc \in {"idle", "rl_returned", "rl_raised", "rl_error"}
    /\ calls < MaxCalls
    /\ calls' = calls + 1
    /\ flags' = [flags EXCEPT ![F] = SetFileNonblock(@, TRUE)]
    /\ output' = <<>>
    /\ inactive' = 0
    /\ streak' = 0
    /\ line' = NoLine
    /\ pc' = "rl_select"
    /\ UNCHANGED <<timeout, requested, alive, wopen, pipe, written, lines,
                   broken>>
    /\ UNCHANGED <<commVars, ghostVars, inVars, endVars, spVars, libVars>>

\* select.select([f], [], [], 1.0) and the branch on its result.
RlSelect ==
    /\ pc = "rl_select"
    /\ IF Select(<<F>>) = <<>>
         THEN /\ inactive' = inactive + 1
              /\ waits' = waits + 1
              /\ idle' = idle + 1
              /\ streak' = streak + 1
              /\ IF RlTimedOut(inactive', timeout)
                   THEN RlFinish(inactive', output)
                   ELSE UNCHANGED <<pc, flags, output, line, lines, broken>>
         ELSE /\ inactive' = RlInactiveOnReady(inactive)
              /\ streak' = 0
              /\ pc' = "rl_read"
              /\ UNCHANGED <<flags, output, line, lines, broken, waits, idle>>
    /\ UNCHANGED <<timeout, requested, alive, wopen, pipe, written, calls,
                   closedAtOnce>>
    /\ UNCHANGED <<commVars, inVars, endVars, spVars, libVars>>

\* c = f.read(1); output.append(c); break on '' or newline.
RlRead ==
    /\ pc = "rl_read"
    /\ LET c == Read1(pipe[F]) IN
        /\ pipe' = [pipe EXCEPT ![F] = SubSeq(@, Len(c) + 1, Len(@))]
        /\ IF RlEndOfLine(c)
             THEN RlFinish(inactive, output \o c)
             ELSE /\ output' = output \o c
                  /\ pc' = "rl_select"
                  /\ UNCHANGED <<flags, line, lines, broken>>
    /\ UNCHANGED <<timeout, requested, alive, wopen, written, inactive,
                   calls, streak>>
    /\ UNCHANGED <<commVars, ghostVars, inVars, endVars, spVars, libVars>>

\* select() or read() raises (select.error on an interrupted call, IOError):
\* nothing catches it inside timed_readline, so it leaves the call at once.
RlException ==
    /\ pc \in {"rl_select", "rl_read"}
    /\ pc' = "rl_error"
    /\ output' = <<>>
    /\ broken' = TRUE
    /\ UNCHANGED <<timeout, inactive, line, lines, calls, streak>>
    /\ UNCHANGED <<envVars, commVars, ghostVars, inVars, endVars, spVars, libVars>>

TimedReadline == RlCall \/ RlSelect \/ RlRead \/ RlException

InitReadline ==
    /\ requested = [s \in Streams |-> s = F]
    /\ InitEnv
    /\ pc = "idle"
    /\ std_in = None
    /\ InitCommVars
    /\ InitRlVars
    /\ InitEndVars
    /\ InitSpVars
    /\ InitLibVars

NextReadline == TimedReadline \/ Child

SpecReadline == InitReadline /\ [][NextReadline]_vars

\* ------------------------------------------------------------ both methods
\* A handle on which the caller runs either communicate or timed_readline.
InitPopen == InitComm \/ InitReadline

NextPopen == Communicate \/ TimedReadline \/ Child

SpecPopen == InitPopen /\ [][NextPopen]_vars

\* ---------------------------------------------- timed_readline: properties
RECURSIVE Flatten(_)
Flatten(ss) == IF ss = <<>> THEN <<>> ELSE Head(ss) \o Flatten(Tail(ss))

\* What a blocking f.readline() returns on a stream holding s up to its end:
\* s up to and including its first newline, or all of s.
RECURSIVE Readline(_)
Readline(s) ==
    IF s = <<>> THEN <<>>
    ELSE IF Head(s) = NL THEN <<NL>>
    ELSE <<Head(s)>> \o Readline(Tail(s))

EndsWithNewline(s) == s # <<>> /\ s[Len(s)] = NL

Drop(s, n) == SubSeq(s, n + 1, Len(s))

RlEnded == pc \in {"rl_returned", "rl_raised", "rl_error"}

\* C2: whenever control has left timed_readline, by a return, by
\* TimeoutError or by an error raised by the wait or the read, the descriptor
\* is in blocking mode.
C2_BlockingAfterReadline == RlEnded => ~NonBlocking(flags[F])

\* C7: timed_readline with timeout <= 0 never raises TimeoutError, and what
\* it returns is a line: it ends with the newline or at end-of-stream.
C7_NoTimeoutWhenDisabled ==
    timeout <= 0 =>
        /\ pc # "rl_raised"
        /\ pc = "rl_returned" =>
             (EndsWithNewline(line.str) \/ (pipe[F] = <<>> /\ ~wopen[F]))

\* C8: as long as no call ended by an exception, the calls that returned
\* gave, one per call and in order, what successive blocking readline calls
\* give: each result is the unread part of what the child wrote up to and
\* including its first newline (without a newline only at end-of-stream), and
\* the results, the bytes read so far and the bytes still in the pipe make up
\* exactly what the child wrote.
C8_LinesAsBlockingReadline ==
    ~broken =>
        /\ Flatten(lines) \o output \o pipe[F] = written[F]
        /\ \A k \in 1..Len(lines) :
             /\ lines[k] =
                  Readline(Drop(written[F],
                                Len(Flatten(SubSeq(lines, 1, k - 1)))))
             /\ ~EndsWithNewline(lines[k]) =>
                  (~wopen[F] /\ Flatten(SubSeq(lines, 1, k)) = written[F])

C8_Witness ==
    /\ ~broken
    /\ timeout > 0
    /\ ~alive
    /\ pc = "rl_returned"
    /\ lines = << <<"a", NL>>, <<NL>> >>
    /\ written[F] = <<"a", NL, NL>>

\* C9: with timeout > 0, timed_readline raises TimeoutError exactly when
\* timeout seconds in a row pass with the descriptor not readable before a
\* newline or end-of-stream is read; raising, it hands no bytes to the
\* caller; returning, the result ends with a newline or at end-of-stream.
C9_RaisesIffInactive ==
    timeout > 0 =>
        /\ pc = "rl_raised" => (streak >= timeout /\ line = NoLine)
        /\ pc \in {"rl_select", "rl_read"} => streak < timeout
        /\ pc = "rl_returned" =>
             /\ streak < timeout
             /\ line.delivered
             /\ EndsWithNewline(line.str) \/ (pipe[F] = <<>> /\ ~wopen[F])

\* TimeoutError with part of a line already read and lost.
C9_Witness ==
    /\ timeout = MaxTimeout
    /\ pc = "rl_raised"
    /\ streak = timeout
    /\ Len(Flatten(lines)) + Len(pipe[F]) < Len(written[F])

\* ----------------------------------------- communicate: further properties
InRange(seq) == {seq[i] : i \in 1..Len(seq)}

\* C11: once communicate with timeout > 0 has got past writing std_in, the
\* bytes of std_in are in the child's standard input, and nothing was written
\* to any other stream.
C11_StdInReachesChild ==
    (timeout > 0 /\ std_in # None /\ pc \notin {"start", "ioerror"}) =>
        /\ childStdin = std_in.str
        /\ sysStdin = <<>>

\* C12: in communicate with timeout > 0 a stream that was not requested is
\* never in the wait set, keeps its flags, and is None in the result; a
\* requested stream is a string in the result, the empty string when the
\* child wrote nothing to it.
C12_UnrequestedStreamsLeftAlone ==
    timeout > 0 =>
        \A s \in Streams :
            /\ ~requested[s] =>
                 /\ s \notin InRange(fds) /\ s \notin InRange(rlist)
                 /\ flags[s] = O_RDONLY
                 /\ pc = "returned" => result[s] = None
            /\ (requested[s] /\ pc = "returned") =>
                 /\ ~result[s].none
                 /\ written[s] = <<>> => result[s] = Str(<<>>)

C12_Witness ==
    /\ timeout > 0
    /\ pc = "returned"
    /\ requested = [s \in Streams |-> s = "stdout"]
    /\ result.stderr = None
    /\ result.stdout = Str(<<>>)
    /\ ~alive

\* C13: in communicate with timeout > 0, a descriptor on which a read has
\* returned '' (end-of-stream) is in no wait set handed to a later select(),
\* and once built the wait set never grows.
C13_EofDroppedFromWaitSet ==
    /\ [](timeout > 0 /\ pc = "select" => \A s \in eof : s \notin InRange(fds))
    /\ [][pc # "start" => InRange(fds') \subseteq InRange(fds)]_vars

\* C14: every communicate call with timeout > 0 eventually ends (the child
\* of the model always stops producing data at some point): a child that
\* closes a stream and then runs on in silence is reported with TimeoutError
\* instead of being waited on for ever.
C14_CommunicateEnds ==
    timeout > 0 => <>(pc \in {"returned", "raised", "ioerror"})

\* C15: communicate with timeout > 0 raises TimeoutError only while the
\* child is still running; with the child already gone when the counter
\* reaches the threshold it returns the collected output instead.
C15_TimeoutOnlyWhileRunning ==
    [][(timeout > 0 /\ pc # "raised" /\ pc' = "raised") => alive']_vars

\* The order of the steps of one call: the wait, the reads of the ready
\* descriptors, then one poll, which either ends the loop or starts the
\* next wait.
LoopEdges ==
    {<<"start", "select">>, <<"start", "ioerror">>, <<"select", "read">>,
     <<"select", "poll">>, <<"select", "raised">>, <<"read", "poll">>,
     <<"poll", "select">>, <<"poll", "returned">>}

\* C16: communicate with timeout > 0 returns only after poll() has reported
\* an exit status; as long as poll() reports None the loop goes on waiting;
\* and every iteration polls exactly once, after its wait and all its reads.
C16_ReturnsOnlyAfterPoll ==
    /\ [](timeout > 0 =>
            /\ pc = "returned" => (returncode = "0" /\ ~alive /\ reaped)
            /\ pc \in {"select", "read", "poll"} => returncode = "None"
            /\ pc = "poll" => rlist = <<>>
            /\ pc = "read" => rlist # <<>>)
    /\ [][(timeout > 0 /\ pc' # pc) =>
            /\ <<pc, pc'>> \in LoopEdges
            /\ pc = "poll" => (pc' = "select" <=> alive)]_vars

\* A call that went on waiting while the child ran and returned after its
\* exit.
C16_Witness ==
    /\ timeout > 0
    /\ pc = "returned"
    /\ returncode = "0"
    /\ waits >= 1
    /\ \E s \in Requested : written[s] # <<>>

\* -------------------------------------------------- the inactivity counter
\* C17: in timed_readline and in communicate with timeout > 0 the counter is
\* the number of empty waits in a row since the last wait that reported a
\* ready descriptor (or since the call began): a wait that reports readiness
\* sets it to 0, an empty wait adds exactly 1, and 0 <= inactive <= timeout.
C17_CounterIsEmptyStreak ==
    /\ [](timeout > 0 =>
            (inactive = streak /\ 0 <= inactive /\ inactive <= timeout))
    /\ [][timeout > 0 =>
            /\ (pc \in {"select", "rl_select"} /\ pc' \in {"read", "rl_read"})
                 => inactive' = 0
            /\ waits' = waits + 1 => inactive' = inactive + 1]_vars

\* communicate after an empty wait, a wait with data and another empty wait.
C17_Witness ==
    /\ timeout = MaxTimeout
    /\ pc = "poll"
    /\ inactive = 1
    /\ waits >= 2
    /\ \E s \in Requested : out[s] # <<>>

\* --------------------------------------- timed_readline: further properties
NewlineOnlyLast(s) == \A i \in 1..Len(s) : s[i] = NL => i = Len(s)

\* C18: timed_readline takes exactly one byte from the stream for each wait
\* that reports it readable and stops at the first newline or at
\* end-of-stream: a returned result holds at most one newline, as its last
\* character, and what the child wrote after it is still in the pipe.
C18_OneByteAtATime ==
    /\ [](pc = "rl_returned" =>
            /\ NewlineOnlyLast(line.str)
            /\ ~broken => Flatten(lines) \o pipe[F] = written[F])
    /\ [][/\ pc = "rl_select" => pc' \in {"rl_select", "rl_read", "rl_raised",
                                          "rl_error"}
          /\ (pc = "rl_read" /\ pc' \notin {"rl_read", "rl_error"}) =>
               /\ pipe'[F] = IF pipe[F] = <<>> THEN <<>> ELSE Tail(pipe[F])
               /\ pc' = "rl_select" <=>
                    (pipe[F] # <<>> /\ Head(pipe[F]) # NL)
               /\ pc' = "rl_select" => output' = Append(output, Head(pipe[F]))
          /\ (pc # "rl_read" /\ written' = written) => pipe' = pipe]_vars

\* A returned line with more of the child's output left in the pipe.
C18_Witness ==
    /\ ~broken
    /\ pc = "rl_returned"
    /\ line.str = <<"a", NL>>
    /\ pipe[F] = <<"a">>

\* C19: when communicate raises TimeoutError the child has been neither
\* killed nor waited on, no descriptor has been closed, and the bytes read so
\* far reach the caller neither as a result nor with the exception.
C19_TimeoutAbandonsChild ==
    /\ [](timeout > 0 /\ pc = "raised" =>
            /\ ~reaped
            /\ \A s \in Streams : ~rclosed[s]
            /\ result = NoResult)
    /\ [][(pc # "raised" /\ pc' = "raised") =>
            (alive' = alive /\ wopen' = wopen /\ pipe' = pipe)]_vars

\* TimeoutError after part of the child's output had been read.
C19_Witness ==
    /\ timeout > 0
    /\ pc = "raised"
    /\ alive
    /\ \E s \in Requested : out[s] # <<>>
    /\ result = NoResult

\* ----------------------------------------- getSPApplicationData: properties
\* C20: a TimeoutError raised by communicate inside getSPApplicationData
\* never reaches the caller: the function shows one error message and returns
\* the empty dict, and it does not start system_profiler a second time.
C20_TimeoutHandledInside ==
    /\ [](~spEscaped)
    /\ [][(spPc = "communicate" /\ pc = "raised" /\ spPc' # spPc) =>
            /\ spRet' = EmptyDict
            /\ spErrors' = spErrors + 1
            /\ spawns' = spawns
            /\ pc' = pc]_vars
    /\ []((pc = "raised" /\ spPc = "idle") =>
            (spRet = EmptyDict /\ spawns = 1 /\ spErrors = 1))

\* system_profiler hung after part of its output had been read, and the
\* caller got the empty dict.
C20_Witness ==
    /\ pc = "raised"
    /\ spPc = "idle"
    /\ spRet = EmptyDict
    /\ spErrors = 1
    /\ out["stdout"] # <<>>
    /\ alive

\* C21 as stated: the wrapped function runs at most once for its argument
\* tuple over any sequence of calls, and a call made after the first one
\* gives the first result.
C21_RunsAtMostOnce ==
    /\ spRuns <= 1
    /\ (spPc = "idle" /\ spCalls >= 2) => spRet = spFirst

\* C21 amended: once a run of the wrapped function has returned for an
\* argument tuple, the function never runs again for that tuple and every
\* later call gives that run's result (a run that raises stores nothing, and
\* the next call runs the function again); so once getSPApplicationData has
\* returned the empty dict after a timeout, every later call returns the
\* empty dict and system_profiler is not started again.
C21_RunsOncePerReturnedResult ==
    /\ [][MemoHas(spCache, NoArgs) =>
            /\ spRuns' = spRuns
            /\ spawns' = spawns
            /\ spCache' = spCache
            /\ spFirst' = spFirst]_vars
    /\ [][(MemoHas(spCache, NoArgs) /\ spCalls' # spCalls) =>
            spRet' = spFirst]_vars
    /\ []((pc = "raised" /\ spPc = "idle") =>
            (spFirst = EmptyDict /\ spRet = EmptyDict /\ spawns = 1))

\* A second call was made after the timeout and was answered from the cache.
C21_Witness ==
    /\ pc = "raised"
    /\ spPc = "idle"
    /\ spCalls = 2
    /\ spRuns = 1
    /\ spawns = 1
    /\ spRet = EmptyDict

\* ----------------------------------------- isExcludedFilesystem: properties
\* C22: isExcludedFilesystem always ends, with at most one retry (at most
\* two frames and at most two getFilesystems calls per top-level call); it
\* refreshes FILESYSTEMS only when the cache is empty or on the retry; and
\* it returns None for a non-empty path outside the excluded directories
\* only after a lookup in a cache refreshed by that frame has failed.
C22_OneRetryFreshLookup ==
    /\ [](fsDepth <= 2 /\ fsRefreshes <= 2)
    /\ (fsPc # "idle") ~> (fsPc = "idle")
    /\ [][FILESYSTEMS' # FILESYSTEMS \/ fsRefreshes' = fsRefreshes + 1 =>
            (DOMAIN FILESYSTEMS = {} \/ fsRetry)]_vars
    /\ [][(fsPc # "idle" /\ fsPc' = "idle" /\ fsRet' = "None"
           /\ fsPath # <<>> /\ ~InExcludedDir(fsPath)) =>
            /\ fsPc = "lookup"
            /\ fsRetry
            /\ fsFresh
            /\ fsRefreshes >= 1
            /\ LookupFails(fsSt, FILESYSTEMS)]_vars

\* The retry was made, both frames refreshed the cache, and the path's
\* filesystem was still not in it: the call returned None.
C22_Witness ==
    /\ fsPc = "idle"
    /\ fsRet = "None"
    /\ fsPath = <<"/", "Applications", "/", "x">>
    /\ fsRefreshes = 2
    /\ fsSt = 2
    /\ DOMAIN FILESYSTEMS = {1}

\* ----------------------------------------- perform_auth_restart: properties
\* The place of an event in the log (0 when it is not there).
Pos(e) ==
    IF \E i \in 1..Len(arLog) : arLog[i] = e
      THEN CHOOSE i \in 1..Len(arLog) : arLog[i] = e
      ELSE 0

\* C23: perform_auth_restart starts fdesetup authrestart only after
\* supports_auth_restart returned True and then get_auth_restart_key
\* returned a non-empty key; when either check fails it returns False and
\* does not start the command, and when the support check fails it does not
\* read the recovery key either.
C23_RestartOnlyAfterBothChecks ==
    /\ Pos("authrestart") > 0 =>
          /\ arSupports = "True"
          /\ recovery_key # <<>>
          /\ 0 < Pos("isactive")
          /\ Pos("isactive") < Pos("supportsauthrestart")
          /\ Pos("supportsauthrestart") < Pos("pref")
          /\ Pos("pref") < Pos("readPlist")
          /\ Pos("readPlist") < Pos("authrestart")
    /\ arSupports = "False" =>
          /\ arPc = "idle"
          /\ arRet = "False"
          /\ Pos("pref") = 0
          /\ Pos("readPlist") = 0
          /\ Pos("authrestart") = 0
    /\ (arPc = "idle" /\ Pos("pref") > 0 /\ recovery_key = <<>>) =>
          /\ arRet = "False"
          /\ Pos("authrestart") = 0

\* The key file held only white space: the support check passed, the key
\* was read and came out empty, and the call returned False.
C23_Witness ==
    /\ arPc = "idle"
    /\ arSupports = "True"
    /\ Pos("readPlist") > 0
    /\ recovery_key = <<>>
    /\ arRet = "False"

\* -------------------------------------------- set_file_nonblock: properties
\* The status flags other than O_NONBLOCK.
OtherFlags(fl) ==
    ((fl \div (2 * O_NONBLOCK)) * (2 * O_NONBLOCK)) + (fl % O_NONBLOCK)

LastArg == nbArgs[Len(nbArgs)]

\* C24: after set_file_nonblock(f, b) the O_NONBLOCK flag equals b whatever
\* it was, every other flag is as before, a second call with the same b
\* changes nothing, and True followed by False gives back the flags of a
\* descriptor that was blocking at first.
C24_SetsOnlyNonblockFlag ==
    /\ nbArgs # <<>> =>
          /\ NonBlocking(nbFlags) = LastArg
          /\ OtherFlags(nbFlags) = OtherFlags(nbPrev)
          /\ OtherFlags(nbFlags) = OtherFlags(nbStart)
    /\ (Len(nbArgs) >= 2 /\ nbArgs[Len(nbArgs) - 1] = LastArg) =>
          nbFlags = nbPrev
    /\ (nbArgs = <<TRUE, FALSE>> /\ ~NonBlocking(nbStart)) =>
          nbFlags = nbStart

\* A descriptor with other flags set (bits 1 and 8) went to non-blocking and
\* back.
C24_Witness ==
    /\ nbArgs = <<TRUE, FALSE>>
    /\ nbStart = O_RDONLY + 1 + 2 * O_NONBLOCK
    /\ nbPrev = nbStart + O_NONBLOCK
    /\ nbFlags = nbStart

====
